---- MODULE Spec2Model ----
(***************************************************************************)
(* Polynomial layer of mlkem-native (mlkem/poly.c): serialization,         *)
(* compression, message encoding, NTT round trips, base multiplication     *)
(* and rejection sampling, modelled operation by operation.                *)
(***************************************************************************)
EXTENDS Integers, Naturals, Sequences, FiniteSets, TLC

VARIABLES pc, build, a, b, r, bytes, msg, cache, ctr, pos, offset, fault,
          in0, in1, cmov, noise, dbg, xof

vars ==
  << pc, build, a, b, r, bytes, msg, cache, ctr, pos, offset, fault,
     in0, in1, cmov, noise, dbg, xof >>

(* The locals of the cmov_int16 harness, of the poly_getnoise functions, of *)
(* mlkem_debug_check_bounds and the state of the SHAKE-128 stream: each is  *)
(* a record whose fields carry the names of the C objects.                  *)
later_vars == << cmov, noise, dbg, xof >>

IdleLater ==
  /\ cmov = << >>
  /\ noise = << >>
  /\ dbg = << >>
  /\ xof = << >>

(***************************************************************************)
(* Program constants                                                       *)
(***************************************************************************)
MLKEM_Q == 3329

MLKEM_N == 256

HALF_Q == 1665

MLKEM_POLYBYTES == 384

MLKEM_INDCPA_MSGBYTES == 32

(***************************************************************************)
(* Bounds of the input families                                            *)
(***************************************************************************)
MaxOffset == 7

MaxStride == 2

MaxMsgStride == 2

MaxNttOffset == 1

MaxSeed == 3

(***************************************************************************)
(* C integer arithmetic                                                    *)
(***************************************************************************)
Pow2(n) == 2 ^ n

ToU8(x) == x % 256

ToU16(x) == x % 65536

ToI16(x) == ((x + 32768) % 65536) - 32768

(***************************************************************************)
(* uint32_t values are kept as two 16-bit limbs, so that a product that    *)
(* wraps modulo 2^32 is computed exactly.                                  *)
(***************************************************************************)
U32(x) == [hi |-> (x \div 65536) % 65536, lo |-> x % 65536]

U32Add(u, v) ==
  [hi |-> (u.hi + v.hi + ((u.lo + v.lo) \div 65536)) % 65536,
   lo |-> (u.lo + v.lo) % 65536]

U32Shl(u, n) ==
  [hi |-> (u.hi * Pow2(n) + ((u.lo * Pow2(n)) \div 65536)) % 65536,
   lo |-> (u.lo * Pow2(n)) % 65536]

MulLo16(x, y) == ((x % 256) * y + 256 * (((x \div 256) * y) % 256)) % 65536

MulHi16(x, y) ==
  (((x % 256) * y + 256 * (((x \div 256) * y) % 256)) \div 65536)
    + (((x \div 256) * y) \div 256)

U32Mul(u, v) ==
  [hi |-> (MulHi16(u.lo, v.lo) + MulLo16(u.hi, v.lo) + MulLo16(u.lo, v.hi))
            % 65536,
   lo |-> MulLo16(u.lo, v.lo)]

U32Shr(u, n) ==
  IF n >= 16 THEN U32(u.hi \div Pow2(n - 16))
  ELSE [hi |-> u.hi \div Pow2(n),
        lo |-> ((u.hi % Pow2(n)) * Pow2(16 - n)) + (u.lo \div Pow2(n))]

U32AndLow(u, mask) == U32(u.lo % (mask + 1))

U32Val(u) == u.hi * 65536 + u.lo

Shl(x, n) == x * Pow2(n)

Shr(x, n) == x \div Pow2(n)

RECURSIVE BitAnd(_, _)
BitAnd(x, y) ==
  IF x = 0 \/ y = 0 THEN 0
  ELSE (x % 2) * (y % 2) + 2 * BitAnd(x \div 2, y \div 2)

RECURSIVE BitOr(_, _)
BitOr(x, y) ==
  IF x = 0 THEN y
  ELSE IF y = 0 THEN x
  ELSE (IF (x % 2) + (y % 2) > 0 THEN 1 ELSE 0) + 2 * BitOr(x \div 2, y \div 2)

(***************************************************************************)
(* Arrays are functions on 0..len-1; an array that a function is about to  *)
(* fill starts out with every cell unwritten.  A loop whose iteration i    *)
(* writes cells that depend on the inputs only is written as the array it  *)
(* leaves behind: cell k holds what the iteration owning k stored there,   *)
(* and stays unwritten when no iteration below the loop bound owns it.     *)
(***************************************************************************)
Unwritten == -99999

NoArray == << >>

FreshArray(len) == [k \in 0 .. len - 1 |-> Unwritten]

AllWritten(arr, len) ==
  /\ DOMAIN arr = 0 .. len - 1
  /\ \A k \in 0 .. len - 1 : arr[k] # Unwritten

(***************************************************************************)
(* Input polynomials: arithmetic progressions modulo q.  With the chunk    *)
(* index running over 0..NumChunks every value of [0, q) occurs, and the   *)
(* offsets move each value through every position of a block.              *)
(***************************************************************************)
NumChunks == (MLKEM_Q - 1) \div MLKEM_N

UnsignedPoly(k, o, s) ==
  [i \in 0 .. MLKEM_N - 1 |-> (MLKEM_N * k + s * i + o) % MLKEM_Q]

UnsignedCanonicalPolys ==
  { UnsignedPoly(k, o, s) : k \in 0 .. NumChunks, o \in 0 .. MaxOffset,
                            s \in 1 .. MaxStride }

(***************************************************************************)
(* poly_tobytes (portable C branch)                                        *)
(***************************************************************************)
tobytes_byte0(t0, t1) == ToU8(BitAnd(t0, 255))

tobytes_byte1(t0, t1) == ToU8(BitOr(Shr(t0, 8), BitAnd(Shl(t1, 4), 240)))

tobytes_byte2(t0, t1) == ToU8(Shr(t1, 4))

poly_tobytes(p) ==
  [k \in 0 .. MLKEM_POLYBYTES - 1 |->
     LET i == k \div 3
         t0 == ToU16(p[2 * i])
         t1 == ToU16(p[2 * i + 1])
     IN IF i >= MLKEM_N \div 2 THEN Unwritten
        ELSE IF k % 3 = 0 THEN tobytes_byte0(t0, t1)
        ELSE IF k % 3 = 1 THEN tobytes_byte1(t0, t1)
        ELSE tobytes_byte2(t0, t1)]

(***************************************************************************)
(* poly_frombytes (portable C branch)                                      *)
(***************************************************************************)
frombytes_even_nomask(t0, t1, t2) == ToI16(BitOr(t0, Shl(t1, 8)))

frombytes_even(t0, t1, t2) == ToI16(BitOr(t0, BitAnd(Shl(t1, 8), 4095)))

frombytes_odd(t0, t1, t2) == ToI16(BitOr(Shr(t1, 4), Shl(t2, 4)))

poly_frombytes(x) ==
  [k \in 0 .. MLKEM_N - 1 |->
     LET i == k \div 2
         t0 == ToU8(x[3 * i + 0])
         t1 == ToU8(x[3 * i + 1])
         t2 == ToU8(x[3 * i + 2])
     IN IF i >= MLKEM_N \div 2 THEN Unwritten
        ELSE IF k % 2 = 0 THEN frombytes_even(t0, t1, t2)
        ELSE frombytes_odd(t0, t1, t2)]

(***************************************************************************)
(* Serialization round trip: tobytes, then frombytes                       *)
(***************************************************************************)
InitBytes ==
  /\ pc = "bytes_start"
  /\ a \in UnsignedCanonicalPolys
  /\ build = 0
  /\ b = NoArray
  /\ r = NoArray
  /\ bytes = NoArray
  /\ msg = NoArray
  /\ cache = NoArray
  /\ ctr = 0
  /\ pos = 0
  /\ offset = 0
  /\ fault = "none"
  /\ in0 = NoArray
  /\ in1 = NoArray
  /\ IdleLater

PolyTobytes ==
  /\ pc = "bytes_start"
  /\ bytes' = poly_tobytes(a)
  /\ pc' = "bytes_packed"
  /\ UNCHANGED << build, a, b, r, msg, cache, ctr, pos, offset, fault,
               in0, in1, later_vars >>

PolyFrombytes ==
  /\ pc = "bytes_packed"
  /\ r' = poly_frombytes(bytes)
  /\ pc' = "bytes_done"
  /\ UNCHANGED << build, a, b, bytes, msg, cache, ctr, pos, offset, fault,
               in0, in1, later_vars >>

NextBytes ==
  \/ PolyTobytes
  \/ PolyFrombytes

SpecBytes == InitBytes /\ [][NextBytes]_vars

\* C1: for every polynomial with all coefficients in [0, q), poly_frombytes
\* applied to the 384 bytes written by poly_tobytes returns the same 256
\* coefficients.
C1_TobytesFrombytesRoundTrip ==
  pc = "bytes_done" =>
    /\ AllWritten(bytes, MLKEM_POLYBYTES)
    /\ \A k \in 0 .. MLKEM_POLYBYTES - 1 : bytes[k] \in 0 .. 255
    /\ AllWritten(r, MLKEM_N)
    /\ r = a

C1_Witness ==
  /\ pc = "bytes_done"
  /\ \E i \in 0 .. MLKEM_N - 1 : a[i] = MLKEM_Q - 1 /\ r[i] = MLKEM_Q - 1
  /\ \E i \in 0 .. (MLKEM_N \div 2) - 1 :
        /\ a[2 * i] > 255
        /\ a[2 * i + 1] % 16 # 0
        /\ bytes[3 * i + 1] = (a[2 * i] \div 256) + 16 * (a[2 * i + 1] % 16)

(***************************************************************************)
(* cmov_int16 (verify.h): constant-time conditional move                   *)
(***************************************************************************)
cmov_int16_nomask(dst, val, cond) ==
  LET mask == ToU16(0 - cond)
  IN ToI16(BitOr(BitAnd(ToU16(dst), 65535 - mask), BitAnd(ToU16(val), mask)))

cmov_int16(dst, val, cond) ==
  LET mask == ToU16(0 - BitAnd(cond, 1))
  IN ToI16(BitOr(BitAnd(ToU16(dst), 65535 - mask), BitAnd(ToU16(val), mask)))

(***************************************************************************)
(* poly_frommsg                                                            *)
(***************************************************************************)
frommsg_cond_rev(m, j) == BitAnd(Shr(m, 7 - j), 1)

frommsg_cond(m, j) == BitAnd(Shr(m, j), 1)

poly_frommsg(m) ==
  [k \in 0 .. MLKEM_N - 1 |->
     LET i == k \div 8
         j == k % 8
     IN IF i >= MLKEM_N \div 8 THEN Unwritten
        ELSE cmov_int16(0, HALF_Q, frommsg_cond(m[i], j))]

(***************************************************************************)
(* poly_tomsg                                                              *)
(***************************************************************************)
tomsg_t_floor(coeff) ==
  U32Val(U32AndLow(U32Shr(U32Mul(U32Add(U32Shl(U32(coeff), 1),
                                        U32(MLKEM_Q \div 2)),
                                 U32(80635)), 28), 1))

tomsg_t(coeff) ==
  U32Val(U32AndLow(U32Shr(U32Mul(U32Add(U32Shl(U32(coeff), 1), U32(HALF_Q)),
                                 U32(80635)), 28), 1))

tomsg_assert_expr(coeff) ==
  LET fix == IF ToI16(coeff) < 0 THEN MLKEM_Q ELSE 0
  IN BitAnd((Shl(coeff + fix, 1) + MLKEM_Q \div 2) \div MLKEM_Q, 1)

RECURSIVE tomsg_byte(_, _, _, _)
tomsg_byte(acc, p, i, j) ==
  IF j >= 8 THEN acc
  ELSE tomsg_byte(ToU8(BitOr(acc, Shl(tomsg_t(p[8 * i + j]), j))), p, i, j + 1)

poly_tomsg(p) ==
  [i \in 0 .. MLKEM_INDCPA_MSGBYTES - 1 |->
     IF i >= MLKEM_N \div 8 THEN Unwritten ELSE tomsg_byte(0, p, i, 0)]

tomsg_assert_holds(p) ==
  \A k \in 0 .. MLKEM_N - 1 : tomsg_t(p[k]) = tomsg_assert_expr(p[k])

(***************************************************************************)
(* Message encoding: frommsg then tomsg on a message, and tomsg on its own *)
(* on an unsigned-canonical polynomial                                     *)
(***************************************************************************)
MsgOf(m, s) == [i \in 0 .. MLKEM_INDCPA_MSGBYTES - 1 |-> (m + s * i) % 256]

KatMsgA == [i \in 0 .. MLKEM_INDCPA_MSGBYTES - 1 |-> IF i = 0 THEN 255 ELSE 0]

Messages ==
  { MsgOf(MLKEM_INDCPA_MSGBYTES * c, s) : c \in 0 .. 7, s \in 0 .. MaxMsgStride }
    \cup { KatMsgA }

InitMsg ==
  /\ \/ /\ pc = "msg_start"
        /\ msg \in Messages
        /\ r = NoArray
     \/ /\ pc = "tomsg_start"
        /\ msg = NoArray
        /\ r \in UnsignedCanonicalPolys
  /\ build = 0
  /\ a = NoArray
  /\ b = NoArray
  /\ bytes = NoArray
  /\ cache = NoArray
  /\ ctr = 0
  /\ pos = 0
  /\ offset = 0
  /\ fault = "none"
  /\ in0 = NoArray
  /\ in1 = NoArray
  /\ IdleLater

PolyFrommsg ==
  /\ pc = "msg_start"
  /\ r' = poly_frommsg(msg)
  /\ pc' = "msg_encoded"
  /\ UNCHANGED << build, a, b, bytes, msg, cache, ctr, pos, offset, fault,
               in0, in1, later_vars >>

PolyTomsg ==
  /\ pc \in {"msg_encoded", "tomsg_start"}
  /\ bytes' = poly_tomsg(r)
  /\ fault' = IF tomsg_assert_holds(r) THEN fault ELSE "assert"
  /\ pc' = IF pc = "msg_encoded" THEN "msg_done" ELSE "tomsg_done"
  /\ UNCHANGED << build, a, b, r, msg, cache, ctr, pos, offset, in0, in1, later_vars >>

NextMsg ==
  \/ PolyFrommsg
  \/ PolyTomsg

SpecMsg == InitMsg /\ [][NextMsg]_vars

BitOf(x, j) == (x \div Pow2(j)) % 2

\* C2: for every 32-byte message m, poly_tomsg(poly_frommsg(m)) is m; bit j
\* of byte i becomes coefficient 8i+j with value 0 or 1665, and that
\* coefficient is mapped back to the same bit.
C2_FrommsgTomsgRoundTrip ==
  /\ pc \in {"msg_encoded", "msg_done"} =>
       /\ AllWritten(r, MLKEM_N)
       /\ \A i \in 0 .. MLKEM_INDCPA_MSGBYTES - 1 : \A j \in 0 .. 7 :
             r[8 * i + j] = (IF BitOf(msg[i], j) = 1 THEN 1665 ELSE 0)
       /\ msg = KatMsgA =>
             \A k \in 0 .. MLKEM_N - 1 : r[k] = (IF k < 8 THEN 1665 ELSE 0)
  /\ pc = "msg_done" =>
       /\ AllWritten(bytes, MLKEM_INDCPA_MSGBYTES)
       /\ bytes = msg

C2_Witness ==
  /\ pc = "msg_done"
  /\ msg = KatMsgA
  /\ r[7] = 1665
  /\ r[8] = 0
  /\ bytes[0] = 255

Round(n, d) == (2 * n + d) \div (2 * d)

\* C4: for every coefficient c in [0, q), the bit poly_tomsg computes with
\* ((2c + HALF_Q) * 80635) >> 28 & 1 in 32-bit unsigned arithmetic equals
\* round(2c/q) mod 2 and equals the division-based expression of the
\* function's ASSERT, which therefore never fails.
C4_TomsgBitIsCompress1 ==
  pc \in {"msg_done", "tomsg_done"} =>
    /\ fault = "none"
    /\ \A i \in 0 .. MLKEM_INDCPA_MSGBYTES - 1 : \A j \in 0 .. 7 :
          /\ r[8 * i + j] \in 0 .. MLKEM_Q - 1
          /\ BitOf(bytes[i], j) = Round(2 * r[8 * i + j], MLKEM_Q) % 2
          /\ BitOf(bytes[i], j) = tomsg_assert_expr(r[8 * i + j])

C4_Witness ==
  /\ pc = "tomsg_done"
  /\ fault = "none"
  /\ \E i \in 0 .. MLKEM_INDCPA_MSGBYTES - 1 : \E j \in 0 .. 7 :
        r[8 * i + j] = 2497 /\ BitOf(bytes[i], j) = 0
  /\ \E i \in 0 .. MLKEM_INDCPA_MSGBYTES - 1 : \E j \in 0 .. 7 :
        r[8 * i + j] = 2496 /\ BitOf(bytes[i], j) = 1

(***************************************************************************)
(* Scalar compression and decompression (poly.h)                           *)
(***************************************************************************)
scalar_compress_q_16(u) ==
  U32Val(U32AndLow(U32Shr(U32Mul(U32Add(U32Shl(U32(u), 4), U32(HALF_Q)),
                                 U32(80635)), 28), 15))

scalar_compress_q_32(u) ==
  U32Val(U32AndLow(U32Shr(U32Mul(U32Add(U32Shl(U32(u), 5),
                                        U32(MLKEM_Q \div 2)),
                                 U32(40318)), 27), 31))

scalar_decompress_q_16(u) == ToI16(Shr(u * MLKEM_Q + 8, 4))

scalar_decompress_q_32(u) == ToI16(Shr(u * MLKEM_Q + 16, 5))

(***************************************************************************)
(* poly_compress: both build branches of MLKEM_POLYCOMPRESSEDBYTES         *)
(***************************************************************************)
compress_t_128_q32(p, i, j) == ToU8(scalar_compress_q_32(p[8 * i + j]))

compress_t_128(p, i, j) == ToU8(scalar_compress_q_16(p[8 * i + j]))

compress_t_160_q16(p, i, j) == ToU8(scalar_compress_q_16(p[8 * i + j]))

compress_t_160(p, i, j) == ToU8(scalar_compress_q_32(p[8 * i + j]))

compress_byte_128(t, c) ==
  ToU8(BitOr(t[2 * c], Shl(t[2 * c + 1], 4)))

compress_byte_160_shift(t, c) ==
  IF c = 0 THEN BitAnd(255, BitOr(Shr(t[0], 0), Shl(t[1], 5)))
  ELSE IF c = 1
    THEN BitAnd(255, BitOr(BitOr(Shr(t[1], 3), Shl(t[2], 2)), Shl(t[3], 7)))
  ELSE IF c = 2 THEN BitAnd(255, BitOr(Shr(t[3], 1), Shl(t[4], 4)))
  ELSE IF c = 3
    THEN BitAnd(255, BitOr(BitOr(Shr(t[4], 4), Shl(t[5], 1)), Shl(t[6], 6)))
  ELSE BitAnd(255, BitOr(Shr(t[6], 3), Shl(t[7], 3)))

compress_byte_160(t, c) ==
  IF c = 0 THEN BitAnd(255, BitOr(Shr(t[0], 0), Shl(t[1], 5)))
  ELSE IF c = 1
    THEN BitAnd(255, BitOr(BitOr(Shr(t[1], 3), Shl(t[2], 2)), Shl(t[3], 7)))
  ELSE IF c = 2 THEN BitAnd(255, BitOr(Shr(t[3], 1), Shl(t[4], 4)))
  ELSE IF c = 3
    THEN BitAnd(255, BitOr(BitOr(Shr(t[4], 4), Shl(t[5], 1)), Shl(t[6], 6)))
  ELSE BitAnd(255, BitOr(Shr(t[6], 2), Shl(t[7], 3)))

poly_compress(polycompressedbytes, p) ==
  LET num_blocks == MLKEM_N \div 8
  IN IF polycompressedbytes = 128
     THEN [k \in 0 .. polycompressedbytes - 1 |->
             LET i == k \div 4
                 t == [j \in 0 .. 7 |-> compress_t_128(p, i, j)]
             IN IF i >= num_blocks THEN Unwritten
                ELSE compress_byte_128(t, k % 4)]
     ELSE [k \in 0 .. polycompressedbytes - 1 |->
             LET i == k \div 5
                 t == [j \in 0 .. 7 |-> compress_t_160(p, i, j)]
             IN IF i >= num_blocks THEN Unwritten
                ELSE compress_byte_160(t, k % 5)]

(***************************************************************************)
(* poly_decompress: both build branches                                    *)
(***************************************************************************)
decompress_field_128_swapped(x, k) ==
  IF k % 2 = 0 THEN BitAnd(Shr(x[k \div 2], 4), 15)
  ELSE BitAnd(Shr(x[k \div 2], 0), 15)

decompress_field_128(x, k) ==
  IF k % 2 = 0 THEN BitAnd(Shr(x[k \div 2], 0), 15)
  ELSE BitAnd(Shr(x[k \div 2], 4), 15)

decompress_t_160_shift(x, ofs, j) ==
  IF j = 0 THEN BitAnd(31, Shr(x[ofs + 0], 0))
  ELSE IF j = 1
    THEN BitAnd(31, BitOr(Shr(x[ofs + 0], 5), Shl(x[ofs + 1], 3)))
  ELSE IF j = 2 THEN BitAnd(31, Shr(x[ofs + 1], 2))
  ELSE IF j = 3
    THEN BitAnd(31, BitOr(Shr(x[ofs + 1], 7), Shl(x[ofs + 2], 1)))
  ELSE IF j = 4
    THEN BitAnd(31, BitOr(Shr(x[ofs + 2], 4), Shl(x[ofs + 3], 3)))
  ELSE IF j = 5 THEN BitAnd(31, Shr(x[ofs + 3], 1))
  ELSE IF j = 6
    THEN BitAnd(31, BitOr(Shr(x[ofs + 3], 6), Shl(x[ofs + 4], 2)))
  ELSE BitAnd(31, Shr(x[ofs + 4], 3))

decompress_t_160(x, ofs, j) ==
  IF j = 0 THEN BitAnd(31, Shr(x[ofs + 0], 0))
  ELSE IF j = 1
    THEN BitAnd(31, BitOr(Shr(x[ofs + 0], 5), Shl(x[ofs + 1], 3)))
  ELSE IF j = 2 THEN BitAnd(31, Shr(x[ofs + 1], 2))
  ELSE IF j = 3
    THEN BitAnd(31, BitOr(Shr(x[ofs + 1], 7), Shl(x[ofs + 2], 1)))
  ELSE IF j = 4
    THEN BitAnd(31, BitOr(Shr(x[ofs + 2], 4), Shl(x[ofs + 3], 4)))
  ELSE IF j = 5 THEN BitAnd(31, Shr(x[ofs + 3], 1))
  ELSE IF j = 6
    THEN BitAnd(31, BitOr(Shr(x[ofs + 3], 6), Shl(x[ofs + 4], 2)))
  ELSE BitAnd(31, Shr(x[ofs + 4], 3))

poly_decompress(polycompressedbytes, x) ==
  IF polycompressedbytes = 128
  THEN [k \in 0 .. MLKEM_N - 1 |->
          IF k \div 2 >= MLKEM_N \div 2 THEN Unwritten
          ELSE scalar_decompress_q_16(decompress_field_128(x, k))]
  ELSE [k \in 0 .. MLKEM_N - 1 |->
          LET i == k \div 8
              ofs == i * 5
          IN IF i >= MLKEM_N \div 8 THEN Unwritten
             ELSE scalar_decompress_q_32(decompress_t_160(x, ofs, k % 8))]

(***************************************************************************)
(* Compression: poly_compress, then poly_decompress, in either build       *)
(***************************************************************************)
SpreadStride == (MLKEM_Q - 1) \div MLKEM_N

SpreadPoly(o) ==
  [i \in 0 .. MLKEM_N - 1 |-> (SpreadStride * i + o) % MLKEM_Q]

SpreadPolys == { SpreadPoly(o) : o \in 0 .. SpreadStride }

InitCompress ==
  /\ pc = "compress_start"
  /\ build \in {128, 160}
  /\ a \in UnsignedCanonicalPolys \cup SpreadPolys
  /\ b = NoArray
  /\ r = NoArray
  /\ bytes = NoArray
  /\ msg = NoArray
  /\ cache = NoArray
  /\ ctr = 0
  /\ pos = 0
  /\ offset = 0
  /\ fault = "none"
  /\ in0 = NoArray
  /\ in1 = NoArray
  /\ IdleLater

PolyCompress ==
  /\ pc = "compress_start"
  /\ bytes' = poly_compress(build, a)
  /\ pc' = "compress_packed"
  /\ UNCHANGED << build, a, b, r, msg, cache, ctr, pos, offset, fault,
               in0, in1, later_vars >>

PolyDecompress ==
  /\ pc = "compress_packed"
  /\ r' = poly_decompress(build, bytes)
  /\ pc' = "compress_done"
  /\ UNCHANGED << build, a, b, bytes, msg, cache, ctr, pos, offset, fault,
               in0, in1, later_vars >>

NextCompress ==
  \/ PolyCompress
  \/ PolyDecompress

SpecCompress == InitCompress /\ [][NextCompress]_vars

(***************************************************************************)
(* Field k of width d in a little-endian bit stream of bytes               *)
(***************************************************************************)
StreamBit(x, n) == BitOf(x[n \div 8], n % 8)

RECURSIVE FieldBits(_, _, _)
FieldBits(x, n, d) ==
  IF d = 0 THEN 0 ELSE StreamBit(x, n) + 2 * FieldBits(x, n + 1, d - 1)

Field(x, d, k) == FieldBits(x, d * k, d)

CompressBits(polycompressedbytes) == IF polycompressedbytes = 128 THEN 4 ELSE 5

Abs(x) == IF x < 0 THEN 0 - x ELSE x

CeilDiv(n, d) == (n + d - 1) \div d

CentredDistance(x, y) ==
  IF Abs(x - y) <= MLKEM_Q - Abs(x - y) THEN Abs(x - y)
  ELSE MLKEM_Q - Abs(x - y)

\* C3 (as stated): for d = 4 and d = 5, every coefficient c' of
\* poly_decompress(poly_compress(p)) satisfies |c - c'| <= ceil(q / 2^(d+1))
\* as a plain integer difference.
C3_PlainDifferenceBound ==
  pc = "compress_done" =>
    \A k \in 0 .. MLKEM_N - 1 :
      Abs(a[k] - r[k]) <= CeilDiv(MLKEM_Q, Pow2(CompressBits(build) + 1))

\* C3 (amended): for d = 4 and d = 5, every coefficient c' of
\* poly_decompress(poly_compress(p)) is in [0, q) and within
\* ceil(q / 2^(d+1)) of c modulo q, that is |c - c'| or q - |c - c'| is at
\* most that bound.
C3_CentredDifferenceBound ==
  pc = "compress_done" =>
    /\ AllWritten(bytes, build)
    /\ AllWritten(r, MLKEM_N)
    /\ \A k \in 0 .. MLKEM_N - 1 :
          /\ r[k] \in 0 .. MLKEM_Q - 1
          /\ CentredDistance(a[k], r[k])
               <= CeilDiv(MLKEM_Q, Pow2(CompressBits(build) + 1))

C3_Witness ==
  /\ pc = "compress_done"
  /\ \E k \in 0 .. MLKEM_N - 1 : a[k] = MLKEM_Q - 1 /\ r[k] = 0
  /\ \E k \in 0 .. MLKEM_N - 1 : a[k] # r[k] /\ r[k] # 0

\* C5: for every u in [0, q), scalar_compress_q_16(u) is in [0, 16) and
\* equals round(16u/q) mod 16; it is 0 for u = 0, 8 for u = 1664 and 0 for
\* u = 3328.  Checked on the value itself and on the nibble poly_compress
\* stores for it.
C5_ScalarCompressQ16 ==
  (pc \in {"compress_packed", "compress_done"} /\ build = 128) =>
    \A k \in 0 .. MLKEM_N - 1 :
      /\ scalar_compress_q_16(a[k]) \in 0 .. 15
      /\ scalar_compress_q_16(a[k]) = Round(16 * a[k], MLKEM_Q) % 16
      /\ Field(bytes, 4, k) = Round(16 * a[k], MLKEM_Q) % 16
      /\ a[k] = 0 => Field(bytes, 4, k) = 0
      /\ a[k] = 1664 => Field(bytes, 4, k) = 8
      /\ a[k] = 3328 => Field(bytes, 4, k) = 0

C5_Witness ==
  /\ pc = "compress_packed"
  /\ build = 128
  /\ \E k \in 0 .. MLKEM_N - 1 : a[k] = 3328 /\ Field(bytes, 4, k) = 0
  /\ \E k \in 0 .. MLKEM_N - 1 : a[k] = 1664 /\ Field(bytes, 4, k) = 8

(***************************************************************************)
(* The computation of scalar_compress_q_32 as the specification words it:  *)
(* shift left by 5, the magic constant and the shift of scalar_compress_   *)
(* q_16, in 32-bit unsigned arithmetic.                                    *)
(***************************************************************************)
compress_q_32_as_described(u) ==
  U32Val(U32Shr(U32Mul(U32Add(U32Shl(U32(u), 5), U32(HALF_Q)),
                       U32(80635)), 28))

QINV == 62209

Pow2Mod16 == 2285

montgomery_reduce(x) ==
  LET t == ToI16(ToI16(x) * QINV)
  IN ToI16(Shr(x - t * MLKEM_Q, 16))

fqmul(x, y) == montgomery_reduce(x * y)

barrett_reduce(x) ==
  LET v == (Pow2(26) + MLKEM_Q \div 2) \div MLKEM_Q
      t == Shr(v * x + Pow2(25), 26)
  IN ToI16(x - t * MLKEM_Q)

scalar_signed_to_unsigned_q_16(x) ==
  ToI16(x + BitAnd(ToU16(Shr(x, 15)), MLKEM_Q))

(***************************************************************************)
(* zetas (ntt.c): 17^bitrev7(k) * 2^16 mod q, centred                      *)
(***************************************************************************)
RECURSIVE PowMod(_, _)
PowMod(base, e) ==
  IF e = 0 THEN 1
  ELSE LET h == PowMod(base, e \div 2)
       IN IF e % 2 = 0 THEN (h * h) % MLKEM_Q
          ELSE (((h * h) % MLKEM_Q) * base) % MLKEM_Q

RECURSIVE BitRev(_, _)
BitRev(x, bits) ==
  IF bits = 0 THEN 0
  ELSE (x % 2) * Pow2(bits - 1) + BitRev(x \div 2, bits - 1)

Centred(x) ==
  IF x % MLKEM_Q > MLKEM_Q \div 2 THEN (x % MLKEM_Q) - MLKEM_Q
  ELSE x % MLKEM_Q

zetas ==
  [k \in 0 .. 127 |-> Centred(PowMod(17, BitRev(k, 7)) * Pow2Mod16)]

(***************************************************************************)
(* poly_ntt (ntt.c): seven Cooley-Tukey layers, len = 128, 64, ..., 2,     *)
(* then one Barrett reduction of every coefficient.  Each layer is a pass  *)
(* over the whole array; Stored is the array as it stands after a pass.    *)
(***************************************************************************)
Stored(arr) == arr @@ << >>

ntt_butterfly(rr, j, len) ==
  LET k == (MLKEM_N \div 2) \div len + j \div (2 * len)
      zeta == zetas[k]
  IN IF j % (2 * len) < len
     THEN ToI16(rr[j] + fqmul(zeta, rr[j + len]))
     ELSE ToI16(rr[j - len] - fqmul(zeta, rr[j]))

ntt_layer(rr, len) ==
  [j \in 0 .. MLKEM_N - 1 |-> ntt_butterfly(rr, j, len)]

poly_ntt(p) ==
  LET l1 == Stored(ntt_layer(p, 128))
      l2 == Stored(ntt_layer(l1, 64))
      l3 == Stored(ntt_layer(l2, 32))
      l4 == Stored(ntt_layer(l3, 16))
      l5 == Stored(ntt_layer(l4, 8))
      l6 == Stored(ntt_layer(l5, 4))
      l7 == Stored(ntt_layer(l6, 2))
  IN [j \in 0 .. MLKEM_N - 1 |-> barrett_reduce(l7[j])]

(***************************************************************************)
(* poly_invntt_tomont (ntt.c): seven Gentleman-Sande layers, len = 2, 4,   *)
(* ..., 128, with the zetas read downwards from index 127, then every      *)
(* coefficient multiplied by f = 1441 under Montgomery reduction.          *)
(***************************************************************************)
invntt_f == 1441

invntt_butterfly(rr, j, len) ==
  LET k == 2 * ((MLKEM_N \div 2) \div len) - 1 - j \div (2 * len)
      zeta == zetas[k]
  IN IF j % (2 * len) < len
     THEN barrett_reduce(ToI16(rr[j] + rr[j + len]))
     ELSE fqmul(zeta, ToI16(rr[j] - rr[j - len]))

invntt_layer(rr, len) ==
  [j \in 0 .. MLKEM_N - 1 |-> invntt_butterfly(rr, j, len)]

poly_invntt_tomont(p) ==
  LET l1 == Stored(invntt_layer(p, 2))
      l2 == Stored(invntt_layer(l1, 4))
      l3 == Stored(invntt_layer(l2, 8))
      l4 == Stored(invntt_layer(l3, 16))
      l5 == Stored(invntt_layer(l4, 32))
      l6 == Stored(invntt_layer(l5, 64))
      l7 == Stored(invntt_layer(l6, 128))
  IN [j \in 0 .. MLKEM_N - 1 |-> fqmul(l7[j], invntt_f)]

(***************************************************************************)
(* poly_tomont and poly_reduce (portable C branches)                       *)
(***************************************************************************)
tomont_f == 1353

poly_tomont_r1(p) ==
  [i \in 0 .. MLKEM_N - 1 |-> fqmul(p[i], Pow2Mod16)]

poly_tomont(p) ==
  [i \in 0 .. MLKEM_N - 1 |-> fqmul(p[i], tomont_f)]

poly_reduce_no_barrett(p) ==
  [i \in 0 .. MLKEM_N - 1 |-> scalar_signed_to_unsigned_q_16(p[i])]

poly_reduce_signed(p) ==
  [i \in 0 .. MLKEM_N - 1 |-> barrett_reduce(p[i])]

poly_reduce(p) ==
  [i \in 0 .. MLKEM_N - 1 |->
     scalar_signed_to_unsigned_q_16(barrett_reduce(p[i]))]

(***************************************************************************)
(* poly_mulcache_compute (portable C branch) and                           *)
(* poly_basemul_montgomery_cached with basemul_cached (ntt.c)              *)
(***************************************************************************)
mulcache_entry(p, k) ==
  LET i == k \div 2
  IN IF k % 2 = 0 THEN fqmul(p[4 * i + 1], zetas[64 + i])
     ELSE fqmul(p[4 * i + 3], 0 - zetas[64 + i])

poly_mulcache_compute(p) ==
  [k \in 0 .. (MLKEM_N \div 2) - 1 |->
     IF k \div 2 >= MLKEM_N \div 4 THEN Unwritten ELSE mulcache_entry(p, k)]

basemul_cached(x, y, base, b_cached, c) ==
  IF c = 0
  THEN ToI16(fqmul(x[base + 1], b_cached) + fqmul(x[base], y[base]))
  ELSE ToI16(fqmul(x[base], y[base + 1]) + fqmul(x[base + 1], y[base]))

basemul_cache_index_shared(k) == 2 * (k \div 4)

basemul_cache_index(k) ==
  IF k % 4 < 2 THEN 2 * (k \div 4) ELSE 2 * (k \div 4) + 1

poly_basemul_montgomery_cached_half(x, y, y_cache) ==
  [k \in 0 .. MLKEM_N - 1 |->
     IF k \div 4 >= MLKEM_N \div 8 THEN Unwritten
     ELSE basemul_cached(x, y, 2 * (k \div 2),
                         y_cache[basemul_cache_index(k)], k % 2)]

poly_basemul_montgomery_cached(x, y, y_cache) ==
  [k \in 0 .. MLKEM_N - 1 |->
     IF k \div 4 >= MLKEM_N \div 4 THEN Unwritten
     ELSE basemul_cached(x, y, 2 * (k \div 2),
                         y_cache[basemul_cache_index(k)], k % 2)]

(***************************************************************************)
(* NTT round trip: poly_ntt, poly_invntt_tomont, then poly_reduce, or      *)
(* poly_tomont and poly_reduce; every function works in place on a, and    *)
(* in0 keeps the polynomial as it was given.                               *)
(***************************************************************************)
SignedSpan == 2 * MLKEM_Q - 1

SignedPoly(k, o) ==
  [i \in 0 .. MLKEM_N - 1 |->
     ((MLKEM_N * k + i + o) % SignedSpan) - (MLKEM_Q - 1)]

Monomial(c, k) == [i \in 0 .. MLKEM_N - 1 |-> IF i = k THEN c ELSE 0]

SignedCanonicalPolys ==
  { SignedPoly(k, o) : k \in 0 .. (SignedSpan - 1) \div MLKEM_N,
                       o \in 0 .. MaxNttOffset }
    \cup { Monomial(c, k) : c \in {1, 0 - 1, MLKEM_Q - 1, 1 - MLKEM_Q},
                            k \in {0, 1, 128, 255} }

InitNtt ==
  /\ pc = "ntt_start"
  /\ in0 \in SignedCanonicalPolys
  /\ a = in0
  /\ in1 = NoArray
  /\ build = 0
  /\ b = NoArray
  /\ r = NoArray
  /\ bytes = NoArray
  /\ msg = NoArray
  /\ cache = NoArray
  /\ ctr = 0
  /\ pos = 0
  /\ offset = 0
  /\ fault = "none"
  /\ IdleLater

PolyNtt ==
  /\ pc = "ntt_start"
  /\ a' = poly_ntt(a)
  /\ pc' = "ntt_done"
  /\ UNCHANGED << build, b, r, bytes, msg, cache, ctr, pos, offset, fault,
               in0, in1, later_vars >>

PolyInvnttTomont ==
  /\ pc = "ntt_done"
  /\ a' = poly_invntt_tomont(a)
  /\ pc' = "invntt_done"
  /\ UNCHANGED << build, b, r, bytes, msg, cache, ctr, pos, offset, fault,
               in0, in1, later_vars >>

PolyTomont ==
  /\ pc = "invntt_done"
  /\ a' = poly_tomont(a)
  /\ pc' = "tomont_done"
  /\ UNCHANGED << build, b, r, bytes, msg, cache, ctr, pos, offset, fault,
               in0, in1, later_vars >>

PolyReduce ==
  /\ pc \in {"invntt_done", "tomont_done"}
  /\ a' = poly_reduce(a)
  /\ pc' = IF pc = "invntt_done" THEN "invntt_reduced" ELSE "tomont_reduced"
  /\ UNCHANGED << build, b, r, bytes, msg, cache, ctr, pos, offset, fault,
               in0, in1, later_vars >>

NextNtt ==
  \/ PolyNtt
  \/ PolyInvnttTomont
  \/ PolyTomont
  \/ PolyReduce

SpecNtt == InitNtt /\ [][NextNtt]_vars

\* C7: for every polynomial p with coefficients in (-q, q), poly_reduce of
\* invntt(ntt(p)) is, coefficient for coefficient, p * (2^16 mod q) reduced
\* to [0, q): exactly one Montgomery factor 2^16 remains.
C7_NttInvnttOneMontgomeryFactor ==
  pc = "invntt_reduced" =>
    \A i \in 0 .. MLKEM_N - 1 : a[i] = (in0[i] * 2285) % MLKEM_Q

C7_Witness ==
  /\ pc = "invntt_reduced"
  /\ \E i \in 0 .. MLKEM_N - 1 : in0[i] = 1 - MLKEM_Q /\ a[i] = 2285
  /\ \E i \in 0 .. MLKEM_N - 1 : in0[i] > 0 /\ a[i] # in0[i]

\* C8 (as stated): ntt, invntt, poly_tomont, then poly_reduce yields exactly
\* poly_reduce(p), the coefficients of p reduced to [0, q).
C8_TomontRecoversInput ==
  pc = "tomont_reduced" =>
    \A i \in 0 .. MLKEM_N - 1 : a[i] = in0[i] % MLKEM_Q

\* C8 (amended): ntt, invntt, poly_tomont, then poly_reduce yields p times
\* 2^32 mod q = 1353 reduced to [0, q): poly_tomont adds a second Montgomery
\* factor to the one invntt leaves, it does not remove it.
C8_TomontAddsSecondFactor ==
  pc = "tomont_reduced" =>
    \A i \in 0 .. MLKEM_N - 1 : a[i] = (in0[i] * 1353) % MLKEM_Q

C8_Witness ==
  /\ pc = "tomont_reduced"
  /\ \E i \in 0 .. MLKEM_N - 1 : in0[i] = 1 /\ a[i] = 1353
  /\ \E i \in 0 .. MLKEM_N - 1 : in0[i] = 0 /\ a[i] = 0

(***************************************************************************)
(* Base multiplication: a = ntt(A) and b = ntt(B) for small-coefficient A  *)
(* (sparse) and B (dense); the mul-cache of b, the cached base             *)
(* multiplication into r, and the inverse transform of r in place.         *)
(***************************************************************************)
SparsePoly(i, c, j, d) ==
  [k \in 0 .. MLKEM_N - 1 |-> IF k = i THEN c ELSE IF k = j THEN d ELSE 0]

SparsePolys ==
  { SparsePoly(ij[1], c, ij[2], 2) :
      ij \in { <<0, 1>>, <<1, 255>>, <<127, 128>>, <<2, 3>>, <<254, 129>> },
      c \in {1, 0 - 3} }

SmallPoly(seed) ==
  [i \in 0 .. MLKEM_N - 1 |-> ((seed * i * i + 3 * i + seed) % 7) - 3]

SmallPolys == { SmallPoly(seed) : seed \in 1 .. MaxSeed }

InitBasemul ==
  /\ pc = "basemul_start"
  /\ in0 \in SparsePolys
  /\ in1 \in SmallPolys
  /\ a = poly_ntt(in0)
  /\ b = poly_ntt(in1)
  /\ r = NoArray
  /\ cache = NoArray
  /\ build = 0
  /\ bytes = NoArray
  /\ msg = NoArray
  /\ ctr = 0
  /\ pos = 0
  /\ offset = 0
  /\ fault = "none"
  /\ IdleLater

PolyMulcacheCompute ==
  /\ pc = "basemul_start"
  /\ cache' = poly_mulcache_compute(b)
  /\ pc' = "basemul_cached"
  /\ UNCHANGED << build, a, b, r, bytes, msg, ctr, pos, offset, fault,
               in0, in1, later_vars >>

PolyBasemulMontgomeryCached ==
  /\ pc = "basemul_cached"
  /\ r' = poly_basemul_montgomery_cached(a, b, cache)
  /\ pc' = "basemul_multiplied"
  /\ UNCHANGED << build, a, b, bytes, msg, cache, ctr, pos, offset, fault,
               in0, in1, later_vars >>

PolyInvnttTomontProduct ==
  /\ pc = "basemul_multiplied"
  /\ r' = poly_invntt_tomont(r)
  /\ pc' = "basemul_done"
  /\ UNCHANGED << build, a, b, bytes, msg, cache, ctr, pos, offset, fault,
               in0, in1, later_vars >>

NextBasemul ==
  \/ PolyMulcacheCompute
  \/ PolyBasemulMontgomeryCached
  \/ PolyInvnttTomontProduct

SpecBasemul == InitBasemul /\ [][NextBasemul]_vars

Support(p) == { i \in DOMAIN p : p[i] # 0 }

RECURSIVE NegacyclicTerms(_, _, _, _)
NegacyclicTerms(S, x, y, k) ==
  IF S = {} THEN 0
  ELSE LET i == CHOOSE e \in S : TRUE
           term == IF i <= k THEN x[i] * y[k - i]
                   ELSE 0 - x[i] * y[k - i + MLKEM_N]
       IN term + NegacyclicTerms(S \ {i}, x, y, k)

NegacyclicProduct(x, y, k) == NegacyclicTerms(Support(x), x, y, k)

\* C9: for a = ntt(A) and b = ntt(B) of small-coefficient A and B,
\* invntt(poly_basemul_montgomery_cached(a, b, poly_mulcache_compute(b))) is
\* congruent modulo q, coefficient for coefficient, to the negacyclic
\* product A * B mod (X^256 + 1); cache entry 2i (2i+1) is b[4i+1] (b[4i+3])
\* times the root of the coefficient pair starting at 4i (4i+2).
C9_BasemulIsNegacyclicProduct ==
  /\ pc \in {"basemul_cached", "basemul_multiplied", "basemul_done"} =>
       /\ AllWritten(cache, MLKEM_N \div 2)
       /\ \A k \in 0 .. (MLKEM_N \div 2) - 1 :
             (cache[k] - b[2 * k + 1] * PowMod(17, 2 * BitRev(k, 7) + 1))
               % MLKEM_Q = 0
  /\ pc = "basemul_multiplied" => AllWritten(r, MLKEM_N)
  /\ pc = "basemul_done" =>
       \A k \in 0 .. MLKEM_N - 1 :
         (r[k] - NegacyclicProduct(in0, in1, k)) % MLKEM_Q = 0

C9_Witness ==
  /\ pc = "basemul_done"
  /\ in0[255] # 0
  /\ \E k \in 0 .. MLKEM_N - 1 : r[k] % MLKEM_Q # 0
  /\ \E k \in 0 .. MLKEM_N - 1 : NegacyclicProduct(in0, in1, k) < 0

(***************************************************************************)
(* rej_uniform: one loop iteration per step, over a buffer of buflen       *)
(* bytes, filling r from index offset up to target                         *)
(***************************************************************************)
rej_val0(x, p) ==
  BitOr(x[p + 0], Shl(BitAnd(x[p + 1], 15), 8))

rej_val1_low_nibble(x, p) ==
  BitOr(BitAnd(x[p + 1], 15), Shl(x[p + 2], 4))

rej_val1(x, p) ==
  BitOr(Shr(x[p + 1], 4), Shl(x[p + 2], 4))

rej_loop_condition(c, p, target, buflen) == c < target /\ p + 3 <= buflen

rej_after_val0(rr, c, x, p) ==
  IF rej_val0(x, p) < MLKEM_Q
  THEN [arr |-> [rr EXCEPT ![c] = rej_val0(x, p)], n |-> c + 1]
  ELSE [arr |-> rr, n |-> c]

rej_after_val1_unguarded(st, x, p, target) ==
  IF rej_val1(x, p) < MLKEM_Q
  THEN [arr |-> [st.arr EXCEPT ![st.n] = rej_val1(x, p)], n |-> st.n + 1]
  ELSE st

rej_after_val1(st, x, p, target) ==
  IF st.n < target /\ rej_val1(x, p) < MLKEM_Q
  THEN [arr |-> [st.arr EXCEPT ![st.n] = rej_val1(x, p)], n |-> st.n + 1]
  ELSE st

RejBufLen == 6

RejBuf(x, s) == [i \in 0 .. RejBufLen - 1 |-> (x + s * i) % 256]

KatBufD == RejBuf(1, 1)

RejBuffers == { RejBuf(x, s) : x \in 0 .. 255, s \in 1 .. MaxStride }

InitRej ==
  /\ pc = "rej_loop"
  /\ bytes \in RejBuffers
  /\ offset \in {0, MLKEM_N - 3}
  /\ ctr = offset
  /\ pos = 0
  /\ r = [k \in 0 .. MLKEM_N - 1 |-> IF k < offset THEN 0 ELSE Unwritten]
  /\ build = 0
  /\ a = NoArray
  /\ b = NoArray
  /\ msg = NoArray
  /\ cache = NoArray
  /\ fault = "none"
  /\ in0 = NoArray
  /\ in1 = NoArray
  /\ IdleLater

RejUniformStep ==
  /\ pc = "rej_loop"
  /\ rej_loop_condition(ctr, pos, MLKEM_N, RejBufLen)
  /\ LET st == rej_after_val1(rej_after_val0(r, ctr, bytes, pos), bytes, pos,
                              MLKEM_N)
     IN /\ r' = st.arr
        /\ ctr' = st.n
  /\ pos' = pos + 3
  /\ UNCHANGED << pc, build, a, b, bytes, msg, cache, offset, fault, in0, in1, later_vars >>

RejUniformReturn ==
  /\ pc = "rej_loop"
  /\ ~rej_loop_condition(ctr, pos, MLKEM_N, RejBufLen)
  /\ pc' = "rej_done"
  /\ UNCHANGED << build, a, b, r, bytes, msg, cache, ctr, pos, offset, fault,
                  in0, in1, later_vars >>

NextRej ==
  \/ RejUniformStep
  \/ RejUniformReturn

SpecRej == InitRej /\ [][NextRej]_vars

Accepted == [k \in 1 .. ctr - offset |-> r[offset + k - 1]]

\* C10 (as stated): on the buffer 01 02 03 04 05 06 rej_uniform yields the
\* coefficients 0x201, 0x630, 0x504.
C10_KatAsStated ==
  (pc = "rej_done" /\ bytes = KatBufD /\ offset = 0) =>
    Accepted = << 513, 1584, 1284 >>

\* C10 (amended): on the buffer 01 02 03 04 05 06 rej_uniform, parsing each
\* 3 bytes as d1 = b0 | ((b1 & 0xF) << 8) and d2 = (b1 >> 4) | (b2 << 4),
\* yields the four coefficients 0x201, 0x030, 0x504, 0x060, all below q and
\* all accepted.
C10_KatFourCoefficients ==
  (pc = "rej_done" /\ bytes = KatBufD /\ offset = 0) =>
    /\ Accepted = << 513, 48, 1284, 96 >>
    /\ \A k \in 1 .. 4 : Accepted[k] < MLKEM_Q
    /\ pos = RejBufLen

C10_Witness ==
  /\ pc = "rej_done"
  /\ bytes = KatBufD
  /\ offset = 0
  /\ ctr = 4
  /\ r[1] = 48

(***************************************************************************)
(* cmov_int16 under its proof harness: *r, v and b are unconstrained       *)
(***************************************************************************)
CmovValues == { -32768, -3329, -1665, -1, 0, 1, 1665, 3328, 32767 }

CmovConds == { 0, 1, 2, 3, 254, 255, 256, 257, 32768, 32769, 65534, 65535 }

InitCmov ==
  /\ pc = "cmov_start"
  /\ cmov \in [ r : CmovValues, v : CmovValues, b : CmovConds ]
  /\ in0 = cmov.r
  /\ build = 0
  /\ a = NoArray
  /\ b = NoArray
  /\ r = NoArray
  /\ bytes = NoArray
  /\ msg = NoArray
  /\ cache = NoArray
  /\ ctr = 0
  /\ pos = 0
  /\ offset = 0
  /\ fault = "none"
  /\ in1 = NoArray
  /\ noise = << >>
  /\ dbg = << >>
  /\ xof = << >>

CmovHarness ==
  /\ pc = "cmov_start"
  /\ cmov' = [ cmov EXCEPT !.r = cmov_int16(cmov.r, cmov.v, cmov.b) ]
  /\ pc' = "cmov_done"
  /\ UNCHANGED << build, a, b, r, bytes, msg, cache, ctr, pos, offset, fault,
                  in0, in1, noise, dbg, xof >>

NextCmov == CmovHarness

SpecCmov == InitCmov /\ [][NextCmov]_vars

\* C11: for every destination value, every val and every 16-bit cond, after
\* cmov_int16(dst, val, cond) the destination holds val when the low bit of
\* cond is 1 and its previous value when the low bit of cond is 0.
C11_CmovSelectsOnLowBit ==
  pc = "cmov_done" =>
    cmov.r = (IF cmov.b % 2 = 1 THEN cmov.v ELSE in0)

C11_Witness ==
  /\ pc = "cmov_done"
  /\ cmov.b = 65534
  /\ in0 = -32768
  /\ cmov.v = 32767
  /\ cmov.r = -32768

(***************************************************************************)
(* Centred binomial sampling (cbd.c): poly_cbd2 and poly_cbd3              *)
(***************************************************************************)
MaxCbdStride == 3

load32_littleendian(x, base) ==
  [hi |-> x[base + 2] + 256 * x[base + 3], lo |-> x[base] + 256 * x[base + 1]]

load24_littleendian(x, base) ==
  x[base] + 256 * x[base + 1] + 65536 * x[base + 2]

U32And(u, v) == [hi |-> BitAnd(u.hi, v.hi), lo |-> BitAnd(u.lo, v.lo)]

cbd2_d(x, i) ==
  LET t == load32_littleendian(x, 4 * i)
      m == [hi |-> 21845, lo |-> 21845]
  IN U32Add(U32And(t, m), U32And(U32Shr(t, 1), m))

cbd2_coeff_swapped(x, k) ==
  LET d == cbd2_d(x, k \div 8)
      j == k % 8
  IN U32Val(U32AndLow(U32Shr(d, 4 * j + 2), 3))
       - U32Val(U32AndLow(U32Shr(d, 4 * j), 3))

cbd2_coeff(x, k) ==
  LET d == cbd2_d(x, k \div 8)
      j == k % 8
  IN U32Val(U32AndLow(U32Shr(d, 4 * j), 3))
       - U32Val(U32AndLow(U32Shr(d, 4 * j + 2), 3))

poly_cbd2(x) == [k \in 0 .. MLKEM_N - 1 |-> cbd2_coeff(x, k)]

cbd3_d(x, i) ==
  LET t == load24_littleendian(x, 3 * i)
  IN BitAnd(t, 2396745) + BitAnd(Shr(t, 1), 2396745)
       + BitAnd(Shr(t, 2), 2396745)

cbd3_coeff(x, k) ==
  LET d == cbd3_d(x, k \div 4)
      j == k % 4
  IN (Shr(d, 6 * j) % 8) - (Shr(d, 6 * j + 3) % 8)

poly_cbd3(x) == [k \in 0 .. MLKEM_N - 1 |-> cbd3_coeff(x, k)]

poly_cbd_eta(eta, x) == IF eta = 3 THEN poly_cbd3(x) ELSE poly_cbd2(x)

CbdBuf(eta, x, s) ==
  [i \in 0 .. (eta * MLKEM_N) \div 4 - 1 |-> (x + s * i) % 256]

InitCbd ==
  /\ pc = "cbd_start"
  /\ build \in {2, 3}
  /\ \E c \in 0 .. 15 : \E s \in 0 .. MaxCbdStride :
        bytes = CbdBuf(build, 17 * c, s)
  /\ r = NoArray
  /\ a = NoArray
  /\ b = NoArray
  /\ msg = NoArray
  /\ cache = NoArray
  /\ ctr = 0
  /\ pos = 0
  /\ offset = 0
  /\ fault = "none"
  /\ in0 = NoArray
  /\ in1 = NoArray
  /\ IdleLater

PolyCbd2 ==
  /\ pc = "cbd_start"
  /\ build = 2
  /\ r' = poly_cbd2(bytes)
  /\ pc' = "cbd_done"
  /\ UNCHANGED << build, a, b, bytes, msg, cache, ctr, pos, offset, fault,
                  in0, in1, later_vars >>

PolyCbd3 ==
  /\ pc = "cbd_start"
  /\ build = 3
  /\ r' = poly_cbd3(bytes)
  /\ pc' = "cbd_done"
  /\ UNCHANGED << build, a, b, bytes, msg, cache, ctr, pos, offset, fault,
                  in0, in1, later_vars >>

NextCbd ==
  \/ PolyCbd2
  \/ PolyCbd3

SpecCbd == InitCbd /\ [][NextCbd]_vars

RECURSIVE Popcount(_, _, _)
Popcount(x, n, w) ==
  IF w = 0 THEN 0 ELSE StreamBit(x, n) + Popcount(x, n + 1, w - 1)

\* C14: for eta in {2, 3} and every input buffer of eta*N/4 bytes the CBD
\* sampler writes all 256 coefficients; coefficient k is the number of ones
\* among the low eta bits minus the number of ones among the high eta bits
\* of bits 2*eta*k .. 2*eta*k + 2*eta - 1 of the little-endian input, so
\* every input bit is used exactly once and every coefficient is in
\* [-eta, eta].
C14_CbdIsPopcountDifference ==
  pc = "cbd_done" =>
    /\ DOMAIN bytes = 0 .. (build * MLKEM_N) \div 4 - 1
    /\ DOMAIN r = 0 .. MLKEM_N - 1
    /\ \A k \in 0 .. MLKEM_N - 1 :
          /\ r[k] = Popcount(bytes, 2 * build * k, build)
                      - Popcount(bytes, 2 * build * k + build, build)
          /\ r[k] \in (0 - build) .. build

C14_Witness ==
  /\ pc = "cbd_done"
  /\ build = 3
  /\ \E k \in 0 .. MLKEM_N - 1 : r[k] = 3
  /\ \E k \in 0 .. MLKEM_N - 1 : r[k] = -3
  /\ \E k \in 0 .. MLKEM_N - 1 : r[k] = 1 /\ k % 4 = 3

(***************************************************************************)
(* SHAKE-256 (fips202.c, fips202x4.c): a deterministic byte stream of the  *)
(* absorbed input; shake256x4 is four independent lanes of shake256        *)
(***************************************************************************)
MLKEM_SYMBYTES == 32

KECCAK_WAY == 4

MLKEM_ETA1(K) == IF K = 2 THEN 3 ELSE 2

MLKEM_ETA2 == 2

MaxNoiseSeed == 2

RECURSIVE Absorb(_, _, _)
Absorb(input, j, st) ==
  IF j \notin DOMAIN input THEN st
  ELSE Absorb(input, j + 1, (st * 131 + input[j] + 1) % 65521)

Squeeze(st, i) ==
  (((st % 251) + 1) * (i * 167 + 13) + (st \div 251) * (i + 3)) % 256

shake256(outlen, input) ==
  LET st == Absorb(input, 0, 7)
  IN Stored([i \in 0 .. outlen - 1 |-> Squeeze(st, i)])

shake256x4(outlen, input0, input1, input2, input3) ==
  << shake256(outlen, input0), shake256(outlen, input1),
     shake256(outlen, input2), shake256(outlen, input3) >>

getnoise_extkey(seed, nonce) ==
  [j \in 0 .. MLKEM_SYMBYTES |-> IF j < MLKEM_SYMBYTES THEN seed[j] ELSE nonce]

prf(outlen, seed, nonce) == shake256(outlen, getnoise_extkey(seed, nonce))

(***************************************************************************)
(* poly_getnoise_eta1_4x, poly_getnoise_eta2, poly_getnoise_eta2_4x and    *)
(* poly_getnoise_eta1122_4x                                                *)
(***************************************************************************)
Lanes(x0, x1, x2, x3) == [l \in 0 .. KECCAK_WAY - 1 |->
  CASE l = 0 -> x0 [] l = 1 -> x1 [] l = 2 -> x2 [] OTHER -> x3]

HalfLanes(x0, x1) == [l \in 0 .. KECCAK_WAY \div 2 - 1 |->
  IF l = 0 THEN x0 ELSE x1]

getnoise_extkeys(n) ==
  Lanes(getnoise_extkey(n.seed, n.nonce0), getnoise_extkey(n.seed, n.nonce1),
        getnoise_extkey(n.seed, n.nonce2), getnoise_extkey(n.seed, n.nonce3))

getnoise_4x_buf(eta, extkey) ==
  LET x4 == shake256x4((eta * MLKEM_N) \div 4,
                       extkey[0], extkey[1], extkey[2], extkey[3])
  IN Lanes(x4[1], x4[2], x4[3], x4[4])

getnoise_eta1122_bufs_same_key(K, extkey) ==
  IF MLKEM_ETA1(K) = MLKEM_ETA2
  THEN LET x4 == shake256x4((MLKEM_ETA1(K) * MLKEM_N) \div 4,
                            extkey[0], extkey[1], extkey[2], extkey[3])
       IN [buf1 |-> HalfLanes(x4[1], x4[2]), buf2 |-> HalfLanes(x4[3], x4[4])]
  ELSE [buf1 |-> HalfLanes(
                   shake256((MLKEM_ETA1(K) * MLKEM_N) \div 4, extkey[0]),
                   shake256((MLKEM_ETA1(K) * MLKEM_N) \div 4, extkey[1])),
        buf2 |-> HalfLanes(
                   shake256((MLKEM_ETA2 * MLKEM_N) \div 4, extkey[2]),
                   shake256((MLKEM_ETA2 * MLKEM_N) \div 4, extkey[2]))]

getnoise_eta1122_bufs(K, extkey) ==
  IF MLKEM_ETA1(K) = MLKEM_ETA2
  THEN LET x4 == shake256x4((MLKEM_ETA1(K) * MLKEM_N) \div 4,
                            extkey[0], extkey[1], extkey[2], extkey[3])
       IN [buf1 |-> HalfLanes(x4[1], x4[2]), buf2 |-> HalfLanes(x4[3], x4[4])]
  ELSE [buf1 |-> HalfLanes(
                   shake256((MLKEM_ETA1(K) * MLKEM_N) \div 4, extkey[0]),
                   shake256((MLKEM_ETA1(K) * MLKEM_N) \div 4, extkey[1])),
        buf2 |-> HalfLanes(
                   shake256((MLKEM_ETA2 * MLKEM_N) \div 4, extkey[2]),
                   shake256((MLKEM_ETA2 * MLKEM_N) \div 4, extkey[3]))]

poly_abs_bound_holds(p, bound) ==
  \A k \in 0 .. MLKEM_N - 1 : p[k] > 0 - bound /\ p[k] < bound

poly_getnoise_eta2(seed, nonce) ==
  poly_cbd_eta(MLKEM_ETA2, prf((MLKEM_ETA2 * MLKEM_N) \div 4, seed, nonce))

NoiseSeed(s) == [j \in 0 .. MLKEM_SYMBYTES - 1 |-> (s * (37 + 11 * j)) % 256]

NoiseNonces == { << 0, 1, 2, 3 >>, << 4, 5, 6, 7 >>, << 252, 253, 254, 255 >>,
                 << 9, 9, 9, 9 >> }

InitNoise ==
  /\ pc = "getnoise_start"
  /\ build \in {2, 3, 4}
  /\ \E s \in 0 .. MaxNoiseSeed : \E n \in NoiseNonces :
        noise = [seed |-> NoiseSeed(s),
                 nonce0 |-> n[1], nonce1 |-> n[2],
                 nonce2 |-> n[3], nonce3 |-> n[4],
                 extkey |-> NoArray, buf |-> NoArray,
                 buf1 |-> NoArray, buf2 |-> NoArray,
                 r |-> NoArray, r0 |-> NoArray, r1 |-> NoArray,
                 r2 |-> NoArray, r3 |-> NoArray]
  /\ a = NoArray
  /\ b = NoArray
  /\ r = NoArray
  /\ bytes = NoArray
  /\ msg = NoArray
  /\ cache = NoArray
  /\ ctr = 0
  /\ pos = 0
  /\ offset = 0
  /\ fault = "none"
  /\ in0 = NoArray
  /\ in1 = NoArray
  /\ cmov = << >>
  /\ dbg = << >>
  /\ xof = << >>

PolyGetnoiseEta1_4x ==
  /\ pc = "getnoise_start"
  /\ LET eta == MLKEM_ETA1(build)
         extkey == getnoise_extkeys(noise)
         buf == getnoise_4x_buf(eta, extkey)
         o0 == poly_cbd_eta(eta, buf[0])
         o1 == poly_cbd_eta(eta, buf[1])
         o2 == poly_cbd_eta(eta, buf[2])
         o3 == poly_cbd_eta(eta, buf[3])
     IN /\ noise' = [noise EXCEPT !.extkey = extkey, !.buf = buf,
                                  !.r0 = o0, !.r1 = o1, !.r2 = o2, !.r3 = o3]
        /\ fault' = IF \A p \in {o0, o1, o2, o3} :
                         poly_abs_bound_holds(p, eta + 1)
                    THEN fault ELSE "bound"
  /\ pc' = "getnoise_eta1_4x_done"
  /\ UNCHANGED << build, a, b, r, bytes, msg, cache, ctr, pos, offset,
                  in0, in1, cmov, dbg, xof >>

PolyGetnoiseEta2 ==
  /\ pc = "getnoise_start"
  /\ LET buf == prf((MLKEM_ETA2 * MLKEM_N) \div 4, noise.seed, noise.nonce0)
         o == poly_cbd_eta(MLKEM_ETA2, buf)
     IN /\ noise' = [noise EXCEPT !.buf = buf, !.r = o]
        /\ fault' = IF poly_abs_bound_holds(o, MLKEM_ETA1(build) + 1)
                    THEN fault ELSE "bound"
  /\ pc' = "getnoise_eta2_done"
  /\ UNCHANGED << build, a, b, r, bytes, msg, cache, ctr, pos, offset,
                  in0, in1, cmov, dbg, xof >>

PolyGetnoiseEta2_4x ==
  /\ pc = "getnoise_start"
  /\ LET eta == MLKEM_ETA2
         extkey == getnoise_extkeys(noise)
         buf == getnoise_4x_buf(eta, extkey)
         o0 == poly_cbd_eta(eta, buf[0])
         o1 == poly_cbd_eta(eta, buf[1])
         o2 == poly_cbd_eta(eta, buf[2])
         o3 == poly_cbd_eta(eta, buf[3])
     IN /\ noise' = [noise EXCEPT !.extkey = extkey, !.buf = buf,
                                  !.r0 = o0, !.r1 = o1, !.r2 = o2, !.r3 = o3]
        /\ fault' = IF \A p \in {o0, o1, o2, o3} :
                         poly_abs_bound_holds(p, eta + 1)
                    THEN fault ELSE "bound"
  /\ pc' = "getnoise_eta2_4x_done"
  /\ UNCHANGED << build, a, b, r, bytes, msg, cache, ctr, pos, offset,
                  in0, in1, cmov, dbg, xof >>

PolyGetnoiseEta1122_4x ==
  /\ pc = "getnoise_start"
  /\ LET extkey == getnoise_extkeys(noise)
         bufs == getnoise_eta1122_bufs(build, extkey)
         o0 == poly_cbd_eta(MLKEM_ETA1(build), bufs.buf1[0])
         o1 == poly_cbd_eta(MLKEM_ETA1(build), bufs.buf1[1])
         o2 == poly_cbd_eta(MLKEM_ETA2, bufs.buf2[0])
         o3 == poly_cbd_eta(MLKEM_ETA2, bufs.buf2[1])
     IN /\ noise' = [noise EXCEPT !.extkey = extkey,
                                  !.buf1 = bufs.buf1, !.buf2 = bufs.buf2,
                                  !.r0 = o0, !.r1 = o1, !.r2 = o2, !.r3 = o3]
        /\ fault' = IF /\ poly_abs_bound_holds(o0, MLKEM_ETA1(build) + 1)
                       /\ poly_abs_bound_holds(o1, MLKEM_ETA1(build) + 1)
                       /\ poly_abs_bound_holds(o2, MLKEM_ETA2 + 1)
                       /\ poly_abs_bound_holds(o3, MLKEM_ETA2 + 1)
                    THEN fault ELSE "bound"
  /\ pc' = "getnoise_eta1122_4x_done"
  /\ UNCHANGED << build, a, b, r, bytes, msg, cache, ctr, pos, offset,
                  in0, in1, cmov, dbg, xof >>

NextNoise ==
  \/ PolyGetnoiseEta1_4x
  \/ PolyGetnoiseEta2
  \/ PolyGetnoiseEta2_4x
  \/ PolyGetnoiseEta1122_4x

SpecNoise == InitNoise /\ [][NextNoise]_vars

NoiseNonce(i) ==
  CASE i = 0 -> noise.nonce0 [] i = 1 -> noise.nonce1
    [] i = 2 -> noise.nonce2 [] OTHER -> noise.nonce3

NoiseOutput(i) ==
  CASE i = 0 -> noise.r0 [] i = 1 -> noise.r1
    [] i = 2 -> noise.r2 [] OTHER -> noise.r3

SeedWithNonce(i) ==
  [j \in 0 .. 32 |-> IF j = 32 THEN NoiseNonce(i) ELSE noise.seed[j]]

SingleLane(eta, i) ==
  poly_cbd_eta(eta, shake256((eta * MLKEM_N) \div 4, SeedWithNonce(i)))

\* C12: for every seed and every four nonces, output i of
\* poly_getnoise_eta1122_4x is the single-lane result CBD_eta_i of the first
\* eta_i*N/4 bytes of SHAKE-256(seed || nonce_i), with eta1 for outputs 0, 1
\* and eta2 for outputs 2, 3, in the batched build and in the four-call
\* build; output i of poly_getnoise_eta2_4x is poly_getnoise_eta2(seed,
\* nonce_i); every output coefficient is in [-eta_i, eta_i].
C12_FourWayEqualsSingleLane ==
  /\ pc = "getnoise_eta1122_4x_done" =>
        \A i \in 0 .. 3 :
          LET eta == IF i < 2 THEN MLKEM_ETA1(build) ELSE MLKEM_ETA2
          IN /\ NoiseOutput(i) = SingleLane(eta, i)
             /\ \A k \in 0 .. MLKEM_N - 1 :
                   NoiseOutput(i)[k] \in (0 - eta) .. eta
  /\ pc = "getnoise_eta2_4x_done" =>
        \A i \in 0 .. 3 :
          /\ NoiseOutput(i) = poly_getnoise_eta2(noise.seed, NoiseNonce(i))
          /\ \A k \in 0 .. MLKEM_N - 1 :
                NoiseOutput(i)[k] \in (0 - MLKEM_ETA2) .. MLKEM_ETA2

C12_Witness ==
  /\ pc = "getnoise_eta1122_4x_done"
  /\ build = 2
  /\ noise.r0 # noise.r1
  /\ noise.r2 # noise.r3
  /\ \E k \in 0 .. MLKEM_N - 1 : noise.r1[k] = 3
  /\ \E k \in 0 .. MLKEM_N - 1 : noise.r3[k] = -2

NoiseDone ==
  { "getnoise_eta1_4x_done", "getnoise_eta2_done", "getnoise_eta2_4x_done",
    "getnoise_eta1122_4x_done" }

AllZero(x) == \A j \in DOMAIN x : x[j] = 0

AllLanesZero(x) == \A l \in DOMAIN x : AllZero(x[l])

\* C13: when poly_getnoise_eta1_4x, poly_getnoise_eta2, poly_getnoise_eta2_4x
\* or poly_getnoise_eta1122_4x returns, every byte of its noise buffers
\* (buf, buf1, buf2) and of its extended keys (extkey) is zero.
C13_ScratchZeroedOnReturn ==
  pc \in NoiseDone =>
    /\ IF pc = "getnoise_eta2_done" THEN AllZero(noise.buf)
       ELSE AllLanesZero(noise.buf)
    /\ AllLanesZero(noise.buf1)
    /\ AllLanesZero(noise.buf2)
    /\ AllLanesZero(noise.extkey)

(***************************************************************************)
(* Decompression of an arbitrary compressed byte array, then compression   *)
(* of the result, in either build                                          *)
(***************************************************************************)
MaxByteStride == 3

CompressedArray(polycompressedbytes, x, s) ==
  [i \in 0 .. polycompressedbytes - 1 |-> (x + s * i) % 256]

InitDecompress ==
  /\ pc = "decompress_start"
  /\ build \in {128, 160}
  /\ \E c \in 0 .. 15 : \E s \in 0 .. MaxByteStride :
        bytes = CompressedArray(build, 17 * c, s)
  /\ in0 = bytes
  /\ a = NoArray
  /\ b = NoArray
  /\ r = NoArray
  /\ msg = NoArray
  /\ cache = NoArray
  /\ ctr = 0
  /\ pos = 0
  /\ offset = 0
  /\ fault = "none"
  /\ in1 = NoArray
  /\ IdleLater

PolyDecompressArray ==
  /\ pc = "decompress_start"
  /\ r' = poly_decompress(build, bytes)
  /\ fault' = IF \A k \in 0 .. MLKEM_N - 1 : r'[k] >= 0 /\ r'[k] < MLKEM_Q
              THEN fault ELSE "bound"
  /\ pc' = "decompress_done"
  /\ UNCHANGED << build, a, b, bytes, msg, cache, ctr, pos, offset,
                  in0, in1, later_vars >>

PolyCompressDecompressed ==
  /\ pc = "decompress_done"
  /\ fault = "none"
  /\ bytes' = poly_compress(build, r)
  /\ pc' = "decompress_recompressed"
  /\ UNCHANGED << build, a, b, r, msg, cache, ctr, pos, offset, fault,
                  in0, in1, later_vars >>

NextDecompress ==
  \/ PolyDecompressArray
  \/ PolyCompressDecompressed

SpecDecompress == InitDecompress /\ [][NextDecompress]_vars

\* C15: for every input byte array of the compressed length (128 bytes for
\* d = 4, 160 bytes for d = 5) poly_decompress writes all 256 coefficients,
\* and coefficient k is in [0, q) and equals (u * q + 2^(d-1)) >> d for the
\* d-bit field u at position k of the input.
C15_DecompressIsRoundedScaling ==
  pc \in {"decompress_done", "decompress_recompressed"} =>
    LET d == CompressBits(build)
    IN /\ fault = "none"
       /\ DOMAIN r = 0 .. MLKEM_N - 1
       /\ \A k \in 0 .. MLKEM_N - 1 :
             /\ r[k] \in 0 .. MLKEM_Q - 1
             /\ r[k] = (Field(in0, d, k) * MLKEM_Q + Pow2(d - 1)) \div Pow2(d)

C15_Witness ==
  /\ pc = "decompress_done"
  /\ build = 160
  /\ \E k \in 0 .. MLKEM_N - 1 : Field(in0, 5, k) = 31 /\ r[k] = 3225
  /\ \E k \in 0 .. MLKEM_N - 1 : k % 8 = 3 /\ Field(in0, 5, k) = 17
  /\ \E k \in 0 .. MLKEM_N - 1 : r[k] = 0

\* C20: for every byte array y of the compressed length,
\* poly_compress(poly_decompress(y)) is y.
C20_CompressDecompressedIsIdentity ==
  pc = "decompress_recompressed" =>
    /\ DOMAIN bytes = 0 .. build - 1
    /\ \A i \in 0 .. build - 1 : bytes[i] = in0[i]

C20_Witness ==
  /\ pc = "decompress_recompressed"
  /\ build = 160
  /\ bytes = in0
  /\ \E k \in 0 .. MLKEM_N - 1 : Field(bytes, 5, k) = 31
  /\ \E k \in 0 .. MLKEM_N - 1 : Field(bytes, 5, k) = 16 /\ r[k] = 1665
  /\ \E i \in 0 .. build - 1 : bytes[i] = 255

(***************************************************************************)
(* poly_rej_uniform: rejection sampling from a SHAKE-128 stream that is    *)
(* squeezed one rate-sized block at a time.  The stream of a seed repeats   *)
(* after XofPeriod blocks, which keeps the state of the stream finite.     *)
(***************************************************************************)
SHAKE128_RATE == 168

XofPeriod == 4

MaxXofSeed == 3

XofSeeds ==
  { [kind |-> "progression", x |-> x, s |-> s] :
      x \in 0 .. MaxXofSeed, s \in {2, 5} }
    \cup { [kind |-> "sparse", x |-> 0, s |-> 0],
           [kind |-> "dead", x |-> 0, s |-> 0] }

xof_block(seed, idx) ==
  Stored([i \in 0 .. SHAKE128_RATE - 1 |->
            CASE seed.kind = "dead" -> 255
              [] seed.kind = "sparse" ->
                   (IF i < 24 /\ i % 3 = 0 THEN 1
                    ELSE IF i < 24 /\ i % 3 = 1 THEN 240 ELSE 255)
              [] OTHER -> (seed.x + seed.s * (SHAKE128_RATE * idx + i)) % 256])

InitXof ==
  /\ pc = "xof_absorb"
  /\ \E seed \in XofSeeds : xof = [seed |-> seed, idx |-> 0]
  /\ bytes = NoArray
  /\ r = [k \in 0 .. MLKEM_N - 1 |-> Unwritten]
  /\ ctr = 0
  /\ pos = 0
  /\ offset = 0
  /\ build = 0
  /\ a = NoArray
  /\ b = NoArray
  /\ msg = NoArray
  /\ cache = NoArray
  /\ fault = "none"
  /\ in0 = NoArray
  /\ in1 = NoArray
  /\ cmov = << >>
  /\ noise = << >>
  /\ dbg = << >>

XofAbsorbSqueeze ==
  /\ pc = "xof_absorb"
  /\ bytes' = xof_block(xof.seed, xof.idx)
  /\ xof' = [xof EXCEPT !.idx = (xof.idx + 1) % XofPeriod]
  /\ pos' = 0
  /\ ctr' = 0
  /\ pc' = "xof_rej"
  /\ UNCHANGED << build, a, b, r, msg, cache, offset, fault, in0, in1,
                  cmov, noise, dbg >>

XofRejUniformStep ==
  /\ pc = "xof_rej"
  /\ rej_loop_condition(ctr, pos, MLKEM_N, SHAKE128_RATE)
  /\ LET st == rej_after_val1(rej_after_val0(r, ctr, bytes, pos), bytes, pos,
                              MLKEM_N)
     IN /\ r' = st.arr
        /\ ctr' = st.n
  /\ pos' = pos + 3
  /\ UNCHANGED << pc, build, a, b, bytes, msg, cache, offset, fault, in0, in1,
                  later_vars >>

XofSqueezeBlock ==
  /\ pc = "xof_rej"
  /\ ~rej_loop_condition(ctr, pos, MLKEM_N, SHAKE128_RATE)
  /\ ctr < MLKEM_N
  /\ bytes' = xof_block(xof.seed, xof.idx)
  /\ xof' = [xof EXCEPT !.idx = (xof.idx + 1) % XofPeriod]
  /\ pos' = 0
  /\ UNCHANGED << pc, build, a, b, r, msg, cache, ctr, offset, fault, in0, in1,
                  cmov, noise, dbg >>

PolyRejUniformReturn ==
  /\ pc = "xof_rej"
  /\ ~rej_loop_condition(ctr, pos, MLKEM_N, SHAKE128_RATE)
  /\ ~(ctr < MLKEM_N)
  /\ pc' = "xof_done"
  /\ UNCHANGED << build, a, b, r, bytes, msg, cache, ctr, pos, offset, fault,
                  in0, in1, later_vars >>

NextXof ==
  \/ XofAbsorbSqueeze
  \/ XofRejUniformStep
  \/ XofSqueezeBlock
  \/ PolyRejUniformReturn

SpecXof == InitXof /\ [][NextXof]_vars

FairSpecXof == SpecXof /\ WF_vars(NextXof)

AcceptedOf(x, p) ==
  SelectSeq(<< Field(x, 12, 2 * (p \div 3)),
               Field(x, 12, 2 * (p \div 3) + 1) >>,
            LAMBDA v : v < MLKEM_Q)

Min(x, y) == IF x < y THEN x ELSE y

XofStored ==
  /\ ctr \in 0 .. MLKEM_N
  /\ DOMAIN r = 0 .. MLKEM_N - 1
  /\ \A k \in 0 .. MLKEM_N - 1 :
        IF k < ctr THEN r[k] \in 0 .. MLKEM_Q - 1 ELSE r[k] = Unwritten
  /\ pc = "xof_done" => ctr = MLKEM_N

XofStepAppends ==
  (pc = "xof_rej" /\ pc' = "xof_rej" /\ pos' = pos + 3) =>
    LET acc == AcceptedOf(bytes, pos)
        n == Min(Len(acc), MLKEM_N - ctr)
    IN /\ ctr' = ctr + n
       /\ \A k \in 0 .. MLKEM_N - 1 :
             r'[k] = (IF k >= ctr /\ k < ctr + n THEN acc[k - ctr + 1]
                      ELSE r[k])

XofExhaustedSqueezes ==
  (pc = "xof_rej" /\ pos + 3 > SHAKE128_RATE /\ ctr < MLKEM_N) =>
    /\ pc' = "xof_rej"
    /\ bytes' = xof_block(xof.seed, xof.idx)
    /\ pos' = 0
    /\ ctr' = ctr
    /\ r' = r

XofProductive ==
  \E idx \in 0 .. XofPeriod - 1 : \E k \in 0 .. (2 * SHAKE128_RATE) \div 3 - 1 :
    Field(xof_block(xof.seed, idx), 12, k) < MLKEM_Q

\* C16: the rejection-sampling loop appends the accepted 12-bit values
\* (< q) of each 3-byte group in stream order and drops the rejected ones;
\* it squeezes another 168-byte block whenever the buffer is exhausted with
\* fewer than 256 coefficients collected; it never stores beyond index 255
\* (a second value is discarded once slot 255 is filled); it returns only
\* with exactly 256 coefficients, all in [0, q), stored; and for a stream
\* that keeps producing accepted values it eventually returns.
C16_RejectionLoop ==
  /\ []XofStored
  /\ [][XofStepAppends /\ XofExhaustedSqueezes]_vars
  /\ ((pc = "xof_absorb" /\ XofProductive) ~> (pc = "xof_done"))

C16_Witness ==
  /\ pc = "xof_done"
  /\ ctr = MLKEM_N
  /\ pos >= 3
  /\ rej_val0(bytes, pos - 3) < MLKEM_Q
  /\ rej_val1(bytes, pos - 3) < MLKEM_Q
  /\ rej_val0(bytes, pos - 3) # rej_val1(bytes, pos - 3)
  /\ r[MLKEM_N - 1] = rej_val0(bytes, pos - 3)
  /\ xof.idx = 3

(***************************************************************************)
(* poly_reduce on arbitrary int16_t coefficients                           *)
(***************************************************************************)
Int16Poly(k) == [i \in 0 .. MLKEM_N - 1 |-> ToI16(32767 + MLKEM_N * k + i)]

Int16Polys == { Int16Poly(k) : k \in 0 .. 65536 \div MLKEM_N - 1 }

InitReduce ==
  /\ pc = "reduce_start"
  /\ in0 \in Int16Polys
  /\ a = in0
  /\ in1 = NoArray
  /\ build = 0
  /\ b = NoArray
  /\ r = NoArray
  /\ bytes = NoArray
  /\ msg = NoArray
  /\ cache = NoArray
  /\ ctr = 0
  /\ pos = 0
  /\ offset = 0
  /\ fault = "none"
  /\ IdleLater

PolyReduceInt16 ==
  /\ pc = "reduce_start"
  /\ a' = poly_reduce(a)
  /\ fault' = IF \A k \in 0 .. MLKEM_N - 1 : a'[k] >= 0 /\ a'[k] < MLKEM_Q
              THEN fault ELSE "bound"
  /\ pc' = "reduce_done"
  /\ UNCHANGED << build, b, r, bytes, msg, cache, ctr, pos, offset,
                  in0, in1, later_vars >>

NextReduce == PolyReduceInt16

SpecReduce == InitReduce /\ [][NextReduce]_vars

\* C17: for every polynomial with arbitrary signed 16-bit coefficients,
\* after poly_reduce every coefficient is in [0, q) and congruent modulo q
\* to the coefficient it replaced; no negative value and no value q is left.
C17_ReduceIsUnsignedCanonical ==
  pc = "reduce_done" =>
    /\ fault = "none"
    /\ DOMAIN a = 0 .. MLKEM_N - 1
    /\ \A k \in 0 .. MLKEM_N - 1 :
          /\ a[k] \in 0 .. MLKEM_Q - 1
          /\ (a[k] - in0[k]) % MLKEM_Q = 0

C17_Witness ==
  /\ pc = "reduce_done"
  /\ in0[0] = 32767
  /\ a[0] = 2806
  /\ in0[1] = -32768
  /\ a[1] = 522

(***************************************************************************)
(* poly_basemul_montgomery_cached on inputs and a mul-cache that are only  *)
(* known to be bounded by q in absolute value                              *)
(***************************************************************************)
MaxBasemulChunk == 2

ConstPoly(len, c) == [i \in 0 .. len - 1 |-> c]

BoundedCache(k) ==
  [i \in 0 .. MLKEM_N \div 2 - 1 |->
     ((997 * i + 31 * k) % SignedSpan) - (MLKEM_Q - 1)]

BasemulInputsA ==
  { ConstPoly(MLKEM_N, c) : c \in {0 - 3295, MLKEM_Q - 1, 1 - MLKEM_Q} }
    \cup { SignedPoly(k, 0) : k \in 0 .. MaxBasemulChunk }

BasemulInputsB ==
  { ConstPoly(MLKEM_N, c) : c \in {0 - 3258, 3258, MLKEM_Q - 1} }
    \cup { SignedPoly(k + 7, 1) : k \in 0 .. MaxBasemulChunk }

BasemulCaches ==
  { ConstPoly(MLKEM_N \div 2, c) : c \in {0 - 3258, 3258, 1 - MLKEM_Q} }
    \cup { BoundedCache(1) }

InitBasemulBound ==
  /\ pc = "basemul_bound_start"
  /\ a \in BasemulInputsA
  /\ b \in BasemulInputsB
  /\ cache \in BasemulCaches
  /\ r = NoArray
  /\ build = 0
  /\ bytes = NoArray
  /\ msg = NoArray
  /\ ctr = 0
  /\ pos = 0
  /\ offset = 0
  /\ fault = "none"
  /\ in0 = NoArray
  /\ in1 = NoArray
  /\ IdleLater

PolyBasemulMontgomeryCachedBounded ==
  /\ pc = "basemul_bound_start"
  /\ r' = poly_basemul_montgomery_cached(a, b, cache)
  /\ pc' = "basemul_bound_done"
  /\ UNCHANGED << build, a, b, bytes, msg, cache, ctr, pos, offset, fault,
                  in0, in1, later_vars >>

NextBasemulBound == PolyBasemulMontgomeryCachedBounded

SpecBasemulBound == InitBasemulBound /\ [][NextBasemulBound]_vars

BasemulFactors(k) ==
  LET base == 2 * (k \div 2)
      c == cache[IF k % 4 < 2 THEN 2 * (k \div 4) ELSE 2 * (k \div 4) + 1]
  IN IF k % 2 = 0 THEN << << a[base + 1], c >>, << a[base], b[base] >> >>
     ELSE << << a[base], b[base + 1] >>, << a[base + 1], b[base] >> >>

InInt32(x) == x >= 0 - 2147483647 - 1 /\ x <= 2147483647

InInt16(x) == x >= 0 - 32768 /\ x <= 32767

MontgomeryInRange(x) ==
  /\ InInt32(x)
  /\ InInt32(ToI16(ToI16(x) * QINV) * MLKEM_Q)
  /\ InInt32(x - ToI16(ToI16(x) * QINV) * MLKEM_Q)
  /\ InInt16((x - ToI16(ToI16(x) * QINV) * MLKEM_Q) \div 65536)

\* C18: for inputs a and b with coefficients in (-q, q) and a mul-cache with
\* entries in (-q, q), poly_basemul_montgomery_cached writes all 256
\* coefficients, each within -3*HALF_Q+1 .. 3*HALF_Q-1 and strictly inside
\* (-3q/2, 3q/2), and no product, Montgomery reduction or sum leaves its
\* 32-bit or 16-bit type.
C18_BasemulOutputBound ==
  pc = "basemul_bound_done" =>
    /\ DOMAIN r = 0 .. MLKEM_N - 1
    /\ \A k \in 0 .. MLKEM_N - 1 :
          LET f == BasemulFactors(k)
              p1 == f[1][1] * f[1][2]
              p2 == f[2][1] * f[2][2]
              sum == fqmul(f[1][1], f[1][2]) + fqmul(f[2][1], f[2][2])
          IN /\ Abs(f[1][1]) < MLKEM_Q /\ Abs(f[1][2]) < MLKEM_Q
             /\ Abs(f[2][1]) < MLKEM_Q /\ Abs(f[2][2]) < MLKEM_Q
             /\ MontgomeryInRange(p1)
             /\ MontgomeryInRange(p2)
             /\ InInt16(sum)
             /\ r[k] = sum
             /\ r[k] >= 0 - 3 * HALF_Q + 1
             /\ r[k] <= 3 * HALF_Q - 1
             /\ 2 * Abs(r[k]) < 3 * MLKEM_Q

C18_Witness ==
  /\ pc = "basemul_bound_done"
  /\ a[0] = 0 - 3295
  /\ b[0] = 0 - 3258
  /\ cache[0] = 0 - 3258
  /\ r[0] = 3656
  /\ r[1] = 3656

(***************************************************************************)
(* debug/debug.h, debug/debug.c: debug_assert_bound and                    *)
(* debug_assert_abs_bound, in a debug build (MLKEM_DEBUG) and without it   *)
(***************************************************************************)
MaxDebugLen == 2

DebugValues == { 0 - 3329, 0 - 3328, 0 - 3, 0 - 2, 0, 2, 3, 3328, 3329 }

DebugArrays ==
  UNION { [0 .. n - 1 -> DebugValues] : n \in 0 .. MaxDebugLen }

DebugCalls ==
  { [macro |-> "debug_assert_bound", value_lb |-> 0, value_ub |-> MLKEM_Q,
     value_abs_bd |-> 0],
    [macro |-> "debug_assert_bound", value_lb |-> 0 - 2, value_ub |-> 3,
     value_abs_bd |-> 0],
    [macro |-> "debug_assert_abs_bound", value_lb |-> 0, value_ub |-> 0,
     value_abs_bd |-> MLKEM_Q],
    [macro |-> "debug_assert_abs_bound", value_lb |-> 0, value_ub |-> 0,
     value_abs_bd |-> 3] }

debug_assert_bound_lower_as_given(value_lb) == value_lb

debug_assert_bound_lower(value_lb) == value_lb - 1

debug_assert_abs_bound_lower(value_abs_bd) == (0 - value_abs_bd) + 1

debug_check_fails(val, lower_bound_exclusive, upper_bound_exclusive) ==
  ~(val > lower_bound_exclusive /\ val < upper_bound_exclusive)

InitDebug ==
  /\ pc = "debug_call"
  /\ \E call \in DebugCalls : \E arr \in DebugArrays :
     \E defined \in BOOLEAN :
        dbg = [MLKEM_DEBUG |-> defined, call |-> call,
               ptr |-> arr, len |-> Cardinality(DOMAIN arr),
               lower_bound_exclusive |-> 0, upper_bound_exclusive |-> 0,
               i |-> 0, err |-> 0, stderr |-> << >>, exit_status |-> -1]
  /\ in0 = dbg.ptr
  /\ a = NoArray
  /\ b = NoArray
  /\ r = NoArray
  /\ build = 0
  /\ bytes = NoArray
  /\ msg = NoArray
  /\ cache = NoArray
  /\ ctr = 0
  /\ pos = 0
  /\ offset = 0
  /\ fault = "none"
  /\ in1 = NoArray
  /\ cmov = << >>
  /\ noise = << >>
  /\ xof = << >>

DebugAssertBound ==
  /\ pc = "debug_call"
  /\ dbg.MLKEM_DEBUG
  /\ dbg.call.macro = "debug_assert_bound"
  /\ dbg' = [dbg EXCEPT
               !.lower_bound_exclusive =
                  debug_assert_bound_lower(dbg.call.value_lb),
               !.upper_bound_exclusive = dbg.call.value_ub,
               !.i = 0, !.err = 0]
  /\ pc' = "debug_check_loop"
  /\ UNCHANGED << build, a, b, r, bytes, msg, cache, ctr, pos, offset, fault,
                  in0, in1, cmov, noise, xof >>

DebugAssertAbsBound ==
  /\ pc = "debug_call"
  /\ dbg.MLKEM_DEBUG
  /\ dbg.call.macro = "debug_assert_abs_bound"
  /\ dbg' = [dbg EXCEPT
               !.lower_bound_exclusive =
                  debug_assert_bound_lower(
                    debug_assert_abs_bound_lower(dbg.call.value_abs_bd)),
               !.upper_bound_exclusive = dbg.call.value_abs_bd,
               !.i = 0, !.err = 0]
  /\ pc' = "debug_check_loop"
  /\ UNCHANGED << build, a, b, r, bytes, msg, cache, ctr, pos, offset, fault,
                  in0, in1, cmov, noise, xof >>

DebugAssertDisabled ==
  /\ pc = "debug_call"
  /\ ~dbg.MLKEM_DEBUG
  /\ pc' = "debug_returned"
  /\ UNCHANGED << build, a, b, r, bytes, msg, cache, ctr, pos, offset, fault,
                  in0, in1, later_vars >>

DebugCheckBoundsStep ==
  /\ pc = "debug_check_loop"
  /\ dbg.i < dbg.len
  /\ dbg' = IF debug_check_fails(dbg.ptr[dbg.i], dbg.lower_bound_exclusive,
                                 dbg.upper_bound_exclusive)
            THEN [dbg EXCEPT !.stderr = Append(dbg.stderr, dbg.i),
                             !.err = 1, !.i = dbg.i + 1]
            ELSE [dbg EXCEPT !.i = dbg.i + 1]
  /\ UNCHANGED << pc, build, a, b, r, bytes, msg, cache, ctr, pos, offset,
                  fault, in0, in1, cmov, noise, xof >>

DebugCheckBoundsExit ==
  /\ pc = "debug_check_loop"
  /\ ~(dbg.i < dbg.len)
  /\ dbg.err = 1
  /\ dbg' = [dbg EXCEPT !.exit_status = 1]
  /\ pc' = "debug_exited"
  /\ UNCHANGED << build, a, b, r, bytes, msg, cache, ctr, pos, offset, fault,
                  in0, in1, cmov, noise, xof >>

DebugCheckBoundsReturn ==
  /\ pc = "debug_check_loop"
  /\ ~(dbg.i < dbg.len)
  /\ dbg.err # 1
  /\ pc' = "debug_returned"
  /\ UNCHANGED << build, a, b, r, bytes, msg, cache, ctr, pos, offset, fault,
                  in0, in1, later_vars >>

NextDebug ==
  \/ DebugAssertBound
  \/ DebugAssertAbsBound
  \/ DebugAssertDisabled
  \/ DebugCheckBoundsStep
  \/ DebugCheckBoundsExit
  \/ DebugCheckBoundsReturn

SpecDebug == InitDebug /\ [][NextDebug]_vars

DebugAccepts(v) ==
  IF dbg.call.macro = "debug_assert_bound"
  THEN dbg.call.value_lb <= v /\ v < dbg.call.value_ub
  ELSE Abs(v) < dbg.call.value_abs_bd

DebugOffending ==
  SelectSeq([k \in 1 .. dbg.len |-> k - 1],
            LAMBDA idx : ~DebugAccepts(in0[idx]))

\* C19: in a debug build debug_assert_bound(ptr, len, lb, ub) exits with
\* status 1 exactly when some value fails lb <= v < ub, after every index
\* has been examined and every offending index reported; otherwise it
\* returns without effect.  debug_assert_abs_bound(ptr, len, B) accepts
\* exactly the values with |v| < B.  Without MLKEM_DEBUG both do nothing.
C19_DebugBoundCheck ==
  /\ pc = "debug_exited" =>
        /\ dbg.MLKEM_DEBUG
        /\ dbg.exit_status = 1
        /\ DebugOffending # << >>
        /\ dbg.i = dbg.len
        /\ dbg.stderr = DebugOffending
  /\ pc = "debug_returned" =>
        /\ dbg.MLKEM_DEBUG => DebugOffending = << >>
        /\ dbg.stderr = << >>
        /\ dbg.exit_status = -1
        /\ dbg.ptr = in0
  /\ pc = "debug_check_loop" => dbg.exit_status = -1

C19_Witness ==
  /\ pc = "debug_exited"
  /\ dbg.call.macro = "debug_assert_bound"
  /\ dbg.call.value_lb = 0 - 2
  /\ dbg.len = 2
  /\ dbg.ptr[0] = 3
  /\ dbg.ptr[1] = 0 - 3
  /\ dbg.stderr = << 0, 1 >>


====
